---- MODULE Spec2Model ----
(***************************************************************************)
(* Model of the load tester (ccload): the interactive shell startREPL, the *)
(* dispatcher runLoadTest with its worker closures, the prober makeRequest *)
(* and the aggregation done with calcStats.                                *)
(*                                                                         *)
(* Node runs one callback at a time and drains the microtask queue before  *)
(* the next I/O callback, so every action below is one turn of the event   *)
(* loop: the callback itself plus every promise continuation it releases   *)
(* (the worker resuming after its await, Promise.all settling, the rest of *)
(* runLoadTest, the rest of the line handler).  Date.now() is read once    *)
(* per turn.                                                               *)
(*                                                                         *)
(* Three revisions of the program are modelled, chosen in Init:            *)
(*   "index"        src/index.ts                                           *)
(*   "part_001"     src/unnamed/part_001, lines 190-449                    *)
(*   "part_001_cli" src/unnamed/part_001, lines 1-188                      *)
(* The first two are the interactive shell.  They differ in makeRequest:   *)
(* part_001 listens to the request's 'error' event and rejects, index.ts   *)
(* has no listener for it; part_001 keeps the status code in the outcome   *)
(* of a response stream error.  The third is the older command-line        *)
(* program: it reads its configuration from argv once, probes directly     *)
(* when one request with one worker is asked for, measures                 *)
(* timeToLastByte from the issue of the request and subtracts the end of   *)
(* the test from its start.  src/unnamed/part_000 has the makeRequest and  *)
(* the worker of the third revision and prints the outcomes without a      *)
(* summary.                                                                *)
(*                                                                         *)
(* Spec is the program as a state machine, its numbers kept as exact       *)
(* rationals.  SpecAggregate applies the aggregation of runLoadTest to     *)
(* collected outcomes in IEEE 754 binary64 arithmetic, for what depends on *)
(* the rounding of sums.                                                   *)
(***************************************************************************)
EXTENDS Integers, Sequences, FiniteSets

(* ------------------------------ bounds -------------------------------- *)
\* Largest value of the clock (Date.now()); the clock starts at 1.
MaxTime == 2
\* Largest integer written after -n.
MaxRequests == 2
\* Largest integer written after -c.
MaxConcurrency == 2
\* The units one call is followed for; only a call of part_001_cli whose
\* numRequests is NaN would go beyond it.
MaxSent == MaxRequests
\* Most outcomes of a call aggregated in binary64 arithmetic, and the
\* longest totalTime of one of them in milliseconds.
MaxOutcomes == 3
MaxMillis == 8
\* Most body chunks of one response, and most terminal events ('end',
\* 'error') one exchange is followed for.
MaxChunks == 2
MaxTerminals == 2

(* ------------------------- JavaScript values -------------------------- *)
\* undefined, for the optional fields of RequestStat.
Undefined == -1
\* null, the initial value of firstByteTime.
Null == -2

\* A JavaScript number: a finite rational n/d (d > 0), NaN, or an infinity
\* (n = 1 for +Infinity, n = -1 for -Infinity).
Num(i) == [k |-> "fin", n |-> i, d |-> 1]
NaN == [k |-> "nan", n |-> 0, d |-> 1]
PosInf == [k |-> "inf", n |-> 1, d |-> 1]
NegInf == [k |-> "inf", n |-> -1, d |-> 1]

IsFinite(a) == a.k = "fin"
IsNaN(a) == a.k = "nan"

\* a < b of JavaScript: false as soon as one side is NaN.
JsLt(a, b) ==
  IF IsNaN(a) \/ IsNaN(b) THEN FALSE
  ELSE IF a.k = "inf" /\ b.k = "inf" THEN a.n < b.n
  ELSE IF a.k = "inf" THEN a.n < 0
  ELSE IF b.k = "inf" THEN b.n > 0
  ELSE a.n * b.d < b.n * a.d

JsLe(a, b) ==
  IF IsNaN(a) \/ IsNaN(b) THEN FALSE ELSE ~JsLt(b, a)

\* a + b on finite numbers (the only sums the program forms).
JsAdd(a, b) ==
  IF a.d = b.d THEN [k |-> "fin", n |-> a.n + b.n, d |-> a.d]
  ELSE [k |-> "fin", n |-> a.n * b.d + b.n * a.d, d |-> a.d * b.d]

\* a / b of JavaScript for a finite or NaN and b finite or NaN:
\* x/0 is +-Infinity, 0/0 is NaN.  Every zero the program divides by is +0.
JsDiv(a, b) ==
  IF IsNaN(a) \/ IsNaN(b) THEN NaN
  ELSE IF b.n = 0 THEN (IF a.n = 0 THEN NaN ELSE IF a.n > 0 THEN PosInf ELSE NegInf)
  ELSE IF b.n > 0 THEN [k |-> "fin", n |-> a.n * b.d, d |-> a.d * b.n]
  ELSE [k |-> "fin", n |-> (0 - a.n) * b.d, d |-> a.d * (0 - b.n)]

\* x ? ... : ... on a number-or-null: null and 0 are falsy.
Truthy(x) == x # Null /\ x # 0

(* ------------------------------ calcStats ----------------------------- *)
RECURSIVE MathMin(_)
\* Math.min(...values): +Infinity for no argument.
MathMin(values) ==
  IF values = <<>> THEN PosInf
  ELSE LET rest == MathMin(Tail(values))
       IN IF JsLt(Head(values), rest) THEN Head(values) ELSE rest

RECURSIVE MathMax(_)
\* Math.max(...values): -Infinity for no argument.
MathMax(values) ==
  IF values = <<>> THEN NegInf
  ELSE LET rest == MathMax(Tail(values))
       IN IF JsLt(rest, Head(values)) THEN Head(values) ELSE rest

RECURSIVE ReduceSum(_, _)
\* values.reduce((acc, v) => acc + v, acc)
ReduceSum(values, acc) ==
  IF values = <<>> THEN acc
  ELSE ReduceSum(Tail(values), JsAdd(acc, Head(values)))

calcStats(values) ==
  [min |-> MathMin(values),
   max |-> MathMax(values),
   avg |-> JsDiv(ReduceSum(values, Num(0)), Num(Len(values)))]

(* ----------------------------- makeRequest ---------------------------- *)
VARIABLES
  revision,  \* which revision of the program runs
  proc,      \* the Node process: "running", "exited" (rl.close) or "crashed"
  now,       \* the value Date.now() returns in the current turn
  runs       \* one record per call of runLoadTest (or direct probe)

vars == <<revision, proc, now, runs>>

\* The revisions with the interactive shell.
ReplRevisions == {"index", "part_001"}
Revisions == ReplRevisions \cup {"part_001_cli"}
\* Status codes the target answers with.
Statuses == {200, 500}
\* Classes of the -u argument: new URL(url) succeeds or throws.
Urls == {"valid", "invalid"}

\* The promise body up to lib.get / lib.request: the exchange is issued at t.
\* unit is the value of requestSent that claimed it (it names the probe).
NewProbe(unit, t) ==
  [pc |-> "awaiting", unit |-> unit, phase |-> "sent", startTime |-> t,
   firstByteTime |-> Null, statusCode |-> Undefined]

\* A worker whose async function has returned.
WorkerDone ==
  [pc |-> "done", unit |-> 0, phase |-> "none", startTime |-> 0,
   firstByteTime |-> Null, statusCode |-> Undefined]

\* A worker whose async function has thrown (its awaited promise rejected).
WorkerRejected ==
  [pc |-> "rejected", unit |-> 0, phase |-> "none", startTime |-> 0,
   firstByteTime |-> Null, statusCode |-> Undefined]

\* A variant of OnData without the test for null: every chunk sets
\* firstByteTime.
OnDataEveryChunk(p, t) == [p EXCEPT !.firstByteTime = t]

\* res.on('data'): only the first chunk sets firstByteTime.
OnData(p, t) ==
  IF p.firstByteTime = Null THEN [p EXCEPT !.firstByteTime = t] ELSE p

\* res.statusCode || 0
StatusOrZero(statusCode) ==
  IF statusCode = Undefined \/ statusCode = 0 THEN 0 ELSE statusCode

\* A variant of EndStat whose totalTime is measured from the first byte.
EndStatTotalFromFirstByte(rev, p, t) ==
  [unit |-> p.unit,
   statusCode |-> StatusOrZero(p.statusCode),
   error |-> FALSE,
   totalTime |-> IF Truthy(p.firstByteTime) THEN t - p.firstByteTime
                 ELSE t - p.startTime,
   timeToFirstByte |->
     IF Truthy(p.firstByteTime) THEN p.firstByteTime - p.startTime ELSE Undefined,
   timeToLastByte |->
     IF rev = "part_001_cli" THEN t - p.startTime
     ELSE IF Truthy(p.firstByteTime) THEN t - p.firstByteTime ELSE Undefined]

\* res.on('end'): the outcome resolved for a completed response.
\* part_001_cli (and part_000) set timeToLastByte to endTime - startTime.
EndStat(rev, p, t) ==
  [unit |-> p.unit,
   statusCode |-> StatusOrZero(p.statusCode),
   error |-> FALSE,
   totalTime |-> t - p.startTime,
   timeToFirstByte |->
     IF Truthy(p.firstByteTime) THEN p.firstByteTime - p.startTime ELSE Undefined,
   timeToLastByte |->
     IF rev = "part_001_cli" THEN t - p.startTime
     ELSE IF Truthy(p.firstByteTime) THEN t - p.firstByteTime ELSE Undefined]

\* res.on('error'): the outcome resolved for a response stream error.
\* index.ts builds {error, totalTime}; part_001 adds statusCode.
ErrorStat(rev, p, t) ==
  [unit |-> p.unit,
   statusCode |->
     IF rev = "part_001" THEN StatusOrZero(p.statusCode) ELSE Undefined,
   error |-> TRUE,
   totalTime |-> t - p.startTime,
   timeToFirstByte |-> Undefined,
   timeToLastByte |-> Undefined]

(* ----------------------------- runLoadTest ---------------------------- *)
NoSummary == [present |-> FALSE]

\* A variant of IsSuccess without the upper limit of the status range.
IsSuccessNoUpper(s) == s.statusCode # Undefined /\ s.statusCode >= 200

\* s.statusCode !== undefined && s.statusCode >= 200 && s.statusCode < 300
IsSuccess(s) == s.statusCode # Undefined /\ s.statusCode >= 200 /\ s.statusCode < 300

SuccessCount(stats) == Len(SelectSeq(stats, IsSuccess))

\* A variant of FailedCount that counts the 5XX answers only, as the label
\* "Failed Requests (5XX)" of the report suggests.
FailedCountOnly5xx(stats) ==
  Len(SelectSeq(stats, LAMBDA s: s.statusCode # Undefined /\ s.statusCode >= 500))

\* stats.length - successCount
FailedCount(stats) == Len(stats) - SuccessCount(stats)

\* stats.map(s => s.totalTime / 1000)
TotalTimes(stats) ==
  [i \in 1..Len(stats) |-> JsDiv(Num(stats[i].totalTime), Num(1000))]

\* A variant of TtfbTimes that keeps every outcome and takes an absent
\* timeToFirstByte as 0.
TtfbTimesAbsentAsZero(stats) ==
  [i \in 1..Len(stats) |->
     JsDiv(Num(IF stats[i].timeToFirstByte = Undefined THEN 0
               ELSE stats[i].timeToFirstByte), Num(1000))]

\* stats.filter(s => s.timeToFirstByte !== undefined).map(... / 1000)
TtfbTimes(stats) ==
  LET kept == SelectSeq(stats, LAMBDA s: s.timeToFirstByte # Undefined)
  IN [i \in 1..Len(kept) |-> JsDiv(Num(kept[i].timeToFirstByte), Num(1000))]

\* stats.filter(s => s.timeToLastByte !== undefined).map(... / 1000)
TtlbTimes(stats) ==
  LET kept == SelectSeq(stats, LAMBDA s: s.timeToLastByte # Undefined)
  IN [i \in 1..Len(kept) |-> JsDiv(Num(kept[i].timeToLastByte), Num(1000))]

\* (testEndTime - testStartTime) / 1000; part_001_cli has
\* (testStartTime - totalEndTime) / 1000.
TotalTestTimeSeconds(rev, testStartTime, testEndTime) ==
  IF rev = "part_001_cli"
  THEN JsDiv(Num(testStartTime - testEndTime), Num(1000))
  ELSE JsDiv(Num(testEndTime - testStartTime), Num(1000))

\* The Summary runLoadTest returns (part_001_cli prints it), testEndTime
\* being read after the join.
Summary(run, testEndTime) ==
  [present |-> TRUE,
   successCount |-> SuccessCount(run.stats),
   failedCount |-> FailedCount(run.stats),
   requestsPerSecond |->
     JsDiv(run.numRequests,
           TotalTestTimeSeconds(revision, run.testStartTime, testEndTime)),
   totalTime |-> calcStats(TotalTimes(run.stats)),
   timeToFirstByte |-> calcStats(TtfbTimes(run.stats)),
   timeToLastByte |-> calcStats(TtlbTimes(run.stats))]

\* A variant of NewRun for a counter and a collection declared outside
\* runLoadTest: a call finds them as the call before it left them.
NewRunSharedState(targetUrl, numRequests, concurrency, t) ==
  [targetUrl |-> targetUrl, numRequests |-> numRequests,
   concurrency |-> concurrency,
   stats |-> IF runs = <<>> THEN <<>> ELSE runs[Len(runs)].stats,
   requestSent |-> IF runs = <<>> THEN 0 ELSE runs[Len(runs)].requestSent,
   testStartTime |-> t, workers |-> <<>>, state |-> "awaiting",
   testEndTime |-> Undefined, summary |-> NoSummary]

\* The first statements of runLoadTest, before any worker exists.
NewRun(targetUrl, numRequests, concurrency, t) ==
  [targetUrl |-> targetUrl, numRequests |-> numRequests,
   concurrency |-> concurrency, stats |-> <<>>, requestSent |-> 0,
   testStartTime |-> t, workers |-> <<>>, state |-> "awaiting",
   testEndTime |-> Undefined, summary |-> NoSummary]

\* The test at the head of the worker's loop.  index.ts and part_001 have
\* while (requestSent < numRequests); part_001_cli has while (true) with
\* if (requestsSent >= numRequests) break, which goes on when numRequests is
\* NaN.
LoopContinues(rev, requestSent, numRequests) ==
  IF rev = "part_001_cli"
  THEN ~JsLe(numRequests, Num(requestSent))
  ELSE JsLt(Num(requestSent), numRequests)

\* A variant of WorkerStep whose loop test is requestSent <= numRequests.
WorkerStepOffByOne(run, t) ==
  IF JsLe(Num(run.requestSent), run.numRequests)
  THEN [run |-> [run EXCEPT !.requestSent = run.requestSent + 1],
        wk |-> IF run.targetUrl = "valid"
               THEN NewProbe(run.requestSent + 1, t)
               ELSE WorkerRejected]
  ELSE [run |-> run, wk |-> WorkerDone]

\* One pass of a worker from the head of its while loop to its next
\* suspension or its end: test the counter, count the unit, call makeRequest.
\* new URL(url) throws inside the promise body for an invalid url, so the
\* awaited promise is rejected and the worker throws.
WorkerStep(run, t) ==
  IF LoopContinues(revision, run.requestSent, run.numRequests)
  THEN [run |-> [run EXCEPT !.requestSent = run.requestSent + 1],
        wk |-> IF run.targetUrl = "valid"
               THEN NewProbe(run.requestSent + 1, t)
               ELSE WorkerRejected]
  ELSE [run |-> run, wk |-> WorkerDone]

RECURSIVE SpawnWorkersDoWhile(_, _, _)
\* A variant of SpawnWorkers for a worker written as do { ... } while (...):
\* the first pass of every worker counts a unit and probes without testing
\* the counter.
SpawnWorkersDoWhile(run, i, t) ==
  IF JsLt(Num(i), run.concurrency)
  THEN LET wk == IF run.targetUrl = "valid"
                 THEN NewProbe(run.requestSent + 1, t)
                 ELSE WorkerRejected
       IN SpawnWorkersDoWhile(
            [run EXCEPT !.requestSent = run.requestSent + 1,
                        !.workers = Append(run.workers, wk)],
            i + 1, t)
  ELSE run

RECURSIVE SpawnWorkersOneMore(_, _, _)
\* A variant of SpawnWorkers whose loop test is i <= concurrency.
SpawnWorkersOneMore(run, i, t) ==
  IF JsLe(Num(i), run.concurrency)
  THEN LET s == WorkerStep(run, t)
       IN SpawnWorkersOneMore(
            [s.run EXCEPT !.workers = Append(s.run.workers, s.wk)], i + 1, t)
  ELSE run

RECURSIVE SpawnWorkers(_, _, _)
\* for (let i = 0; i < concurrency; i++) workers.push(worker())
SpawnWorkers(run, i, t) ==
  IF JsLt(Num(i), run.concurrency)
  THEN LET s == WorkerStep(run, t)
       IN SpawnWorkers([s.run EXCEPT !.workers = Append(s.run.workers, s.wk)],
                       i + 1, t)
  ELSE run

\* await Promise.all(workers) and what follows it: the call raises on the
\* first rejected worker and returns its Summary once every worker is done.
Settle(run, t) ==
  IF run.state # "awaiting" THEN run
  ELSE IF \E w \in 1..Len(run.workers) : run.workers[w].pc = "rejected"
  THEN [run EXCEPT !.state = "raised"]
  ELSE IF \A w \in 1..Len(run.workers) : run.workers[w].pc = "done"
  THEN [run EXCEPT !.state = "returned", !.testEndTime = t,
                   !.summary = Summary(run, t)]
  ELSE run

\* A variant of PushStat that writes at the length the worker read before
\* its await: an append of another worker made meanwhile is overwritten.
PushStatAtStaleLength(stats, stat) ==
  IF stats = <<>> THEN <<stat>> ELSE [stats EXCEPT ![Len(stats)] = stat]

\* stats.push(stat)
PushStat(stats, stat) == Append(stats, stat)

\* A variant of Resume for a worker that tested the counter before it was
\* suspended: on resumption it goes by what the counter was when it claimed
\* its last unit, and then counts the next unit.
ResumeStaleTest(run, w, stat, t) ==
  IF run.state = "single"
  THEN [run EXCEPT !.stats = <<stat>>, !.workers[w] = WorkerDone,
                   !.state = "printed"]
  ELSE LET pushed == [run EXCEPT !.stats = PushStat(run.stats, stat)]
           wk == IF LoopContinues(revision, run.workers[w].unit, run.numRequests)
                 THEN NewProbe(run.requestSent + 1, t)
                 ELSE WorkerDone
       IN Settle([pushed EXCEPT
                    !.requestSent = IF wk.pc = "awaiting" THEN run.requestSent + 1
                                    ELSE run.requestSent,
                    !.workers[w] = wk], t)

\* The worker w resumes from its await with stat: push, then loop again.
\* For the direct probe of part_001_cli the promise's then-callback prints
\* stat, which is kept as the only outcome.
Resume(run, w, stat, t) ==
  IF run.state = "single"
  THEN [run EXCEPT !.stats = <<stat>>, !.workers[w] = WorkerDone,
                   !.state = "printed"]
  ELSE LET pushed == [run EXCEPT !.stats = PushStat(run.stats, stat)]
           s == WorkerStep(pushed, t)
       IN Settle([s.run EXCEPT !.workers[w] = s.wk], t)

(* ------------------------------ startREPL ----------------------------- *)
\* The text written after -n or -c: a decimal integer literal or any other
\* word.
NumberTokens(max) ==
  {[t |-> "int", v |-> i] : i \in (0 - 1)..max} \cup {[t |-> "word", v |-> 0]}

\* parseInt(token, 10): the integer of an integer literal, NaN for a word.
ParseInt(token) == IF token.t = "int" THEN Num(token.v) ELSE NaN

\* The call runLoadTest(targetUrl, numRequests, concurrency) up to its first
\* suspension, and past it when the join settles in the same turn.
runLoadTest(targetUrl, numRequests, concurrency, t) ==
  Settle(SpawnWorkers(NewRun(targetUrl, numRequests, concurrency, t), 0, t), t)

\* makeRequest(targetUrl).then(...).catch(...) of part_001_cli, for one
\* request with one worker: one probe and no counter; an invalid url rejects
\* the promise and the catch-callback prints the failure.
SingleRequest(targetUrl, t) ==
  [targetUrl |-> targetUrl, numRequests |-> Num(1), concurrency |-> Num(1),
   stats |-> <<>>, requestSent |-> 0, testStartTime |-> t,
   workers |-> IF targetUrl = "valid" THEN <<NewProbe(1, t)>>
               ELSE <<WorkerRejected>>,
   state |-> IF targetUrl = "valid" THEN "single" ELSE "failed",
   testEndTime |-> Undefined, summary |-> NoSummary]

Init ==
  /\ revision \in Revisions
  /\ proc = "running"
  /\ now = 1
  /\ runs = <<>>

\* Date.now() advances between two turns of the event loop.
Tick ==
  /\ proc = "running"
  /\ now < MaxTime
  /\ now' = now + 1
  /\ UNCHANGED <<revision, proc, runs>>

\* The line "help": printHelp, prompt.
LineHelp ==
  /\ revision \in ReplRevisions
  /\ proc = "running"
  /\ UNCHANGED vars

\* The lines "", "exit" and "quit": rl.close(), whose 'close' handler calls
\* process.exit(0).  The process is gone, and every call of runLoadTest and
\* every pending exchange with it.
LineExit ==
  /\ revision \in ReplRevisions
  /\ proc = "running"
  /\ proc' = "exited"
  /\ runs' = <<>>
  /\ UNCHANGED <<revision, now>>

\* A command without -u: the error line, prompt.
LineNoUrl ==
  /\ revision \in ReplRevisions
  /\ proc = "running"
  /\ UNCHANGED vars

\* A call of runLoadTest none of whose callbacks is pending any more: the
\* call has settled and no worker of it awaits a probe.
Dead(run) ==
  /\ run.state # "awaiting"
  /\ \A w \in 1..Len(run.workers) : run.workers[w].pc # "awaiting"

\* The line handler has finished with every call of runLoadTest (printSummary
\* or the error line, then prompt) and no callback of any of them is pending:
\* their closures are unreachable and their records are dropped.
Collect ==
  /\ revision \in ReplRevisions
  /\ proc = "running"
  /\ runs # <<>>
  /\ \A r \in 1..Len(runs) : Dead(runs[r])
  /\ runs' = <<>>
  /\ UNCHANGED <<revision, proc, now>>

\* A command with -u, -n and -c: parse the two numbers and call runLoadTest.
\* The command is entered once the calls before it are dead and dropped.
LineRun ==
  /\ revision \in ReplRevisions
  /\ proc = "running"
  /\ runs = <<>>
  /\ \E url \in Urls, n \in NumberTokens(MaxRequests), c \in NumberTokens(MaxConcurrency) :
       runs' = <<runLoadTest(url, ParseInt(n), ParseInt(c), now)>>
  /\ UNCHANGED <<revision, proc, now>>

(* ------------------------ part_001_cli main script -------------------- *)
\* The script of part_001_cli: without a url it exits; one request with one
\* worker is probed directly; every other configuration goes to runLoadTest,
\* whose promise nobody handles, so a call that raises ends the process with
\* an unhandled rejection.
Main ==
  /\ revision = "part_001_cli"
  /\ proc = "running"
  /\ runs = <<>>
  /\ \/ /\ proc' = "exited"
        /\ UNCHANGED runs
     \/ \E url \in Urls, n \in NumberTokens(MaxRequests),
           c \in NumberTokens(MaxConcurrency) :
          IF ParseInt(n) = Num(1) /\ ParseInt(c) = Num(1)
          THEN /\ runs' = <<SingleRequest(url, now)>>
               /\ UNCHANGED proc
          ELSE LET run == runLoadTest(url, ParseInt(n), ParseInt(c), now)
               IN /\ runs' = <<run>>
                  /\ proc' = IF run.state = "raised" THEN "crashed" ELSE proc
  /\ UNCHANGED <<revision, now>>

\* Nothing is pending any more in part_001_cli: the event loop is empty and
\* the process ends.
CliExit ==
  /\ revision = "part_001_cli"
  /\ proc = "running"
  /\ runs # <<>>
  /\ \A r \in 1..Len(runs) : Dead(runs[r])
  /\ proc' = "exited"
  /\ UNCHANGED <<revision, now, runs>>

(* --------------------------- transport events ------------------------- *)
InFlight(r, w) ==
  /\ r \in 1..Len(runs)
  /\ w \in 1..Len(runs[r].workers)
  /\ runs[r].workers[w].pc = "awaiting"

\* The response callback of lib.get / lib.request: headers have arrived.
Response(r, w) ==
  /\ proc = "running"
  /\ InFlight(r, w)
  /\ runs[r].workers[w].phase = "sent"
  /\ \E status \in Statuses :
       runs' = [runs EXCEPT ![r].workers[w].phase = "headers",
                            ![r].workers[w].statusCode = status]
  /\ UNCHANGED <<revision, proc, now>>

\* res 'data'
Data(r, w) ==
  /\ proc = "running"
  /\ InFlight(r, w)
  /\ runs[r].workers[w].phase = "headers"
  /\ runs' = [runs EXCEPT ![r].workers[w] = OnData(runs[r].workers[w], now)]
  /\ UNCHANGED <<revision, proc, now>>

\* res 'end': resolve(stat), and the worker resumes.
End(r, w) ==
  /\ proc = "running"
  /\ InFlight(r, w)
  /\ runs[r].workers[w].phase = "headers"
  /\ LET run == Resume(runs[r], w, EndStat(revision, runs[r].workers[w], now), now)
     IN /\ IsFinite(run.numRequests) \/ run.requestSent <= MaxSent
        /\ runs' = [runs EXCEPT ![r] = run]
  /\ UNCHANGED <<revision, proc, now>>

\* A variant of ResError whose handler calls reject(error): the worker
\* throws at its await and the join settles.
ResErrorRejects(r, w) ==
  /\ proc = "running"
  /\ InFlight(r, w)
  /\ runs[r].workers[w].phase = "headers"
  /\ runs' = [runs EXCEPT ![r] =
                Settle([runs[r] EXCEPT !.workers[w] = WorkerRejected], now)]
  /\ UNCHANGED <<revision, proc, now>>

\* res 'error': resolve(stat), and the worker resumes.
ResError(r, w) ==
  /\ proc = "running"
  /\ InFlight(r, w)
  /\ runs[r].workers[w].phase = "headers"
  /\ LET run == Resume(runs[r], w, ErrorStat(revision, runs[r].workers[w], now), now)
     IN /\ IsFinite(run.numRequests) \/ run.requestSent <= MaxSent
        /\ runs' = [runs EXCEPT ![r] = run]
  /\ UNCHANGED <<revision, proc, now>>

\* The request's 'error' event before any response (connection refused, DNS
\* or TLS failure).  part_001 rejects the promise, so the worker throws and
\* the join settles.  index.ts registers no listener: the emitter throws the
\* error, nothing catches it and the process dies.
ReqError(r, w) ==
  /\ proc = "running"
  /\ InFlight(r, w)
  /\ runs[r].workers[w].phase = "sent"
  /\ IF revision = "part_001"
     THEN /\ runs' = [runs EXCEPT ![r] =
                        Settle([runs[r] EXCEPT !.workers[w] = WorkerRejected], now)]
          /\ UNCHANGED proc
     ELSE /\ proc' = "crashed"
          /\ UNCHANGED runs
  /\ UNCHANGED <<revision, now>>

Next ==
  \/ Tick
  \/ LineHelp
  \/ LineExit
  \/ LineNoUrl
  \/ LineRun
  \/ Collect
  \/ Main
  \/ CliExit
  \/ \E r \in 1..Len(runs), w \in 1..MaxConcurrency : Response(r, w)
  \/ \E r \in 1..Len(runs), w \in 1..MaxConcurrency : Data(r, w)
  \/ \E r \in 1..Len(runs), w \in 1..MaxConcurrency : End(r, w)
  \/ \E r \in 1..Len(runs), w \in 1..MaxConcurrency : ResError(r, w)
  \/ \E r \in 1..Len(runs), w \in 1..MaxConcurrency : ReqError(r, w)

Spec == Init /\ [][Next]_vars

(* ---------------------------- two calls at once ----------------------- *)
\* The line handler is async: while it awaits runLoadTest the interface
\* goes on reading, and a second command starts a second call beside the
\* first, or after it.  SpecOverlap follows a first and a second call of
\* the shell of src/index.ts, both kept in runs, within one millisecond and
\* with exchanges that complete without a body: the target of the first
\* command answers 200 and the target of the second answers 500, so that an
\* outcome shows which call its probe belonged to.
InitOverlap ==
  /\ revision = "index"
  /\ proc = "running"
  /\ now = 1
  /\ runs = <<>>

\* A command with -u, -n and -c, entered whatever the call before it does.
LineRunOverlapping ==
  /\ proc = "running"
  /\ Len(runs) <= 1
  /\ \E url \in Urls, n \in NumberTokens(MaxRequests), c \in NumberTokens(MaxConcurrency) :
       runs' = Append(runs, runLoadTest(url, ParseInt(n), ParseInt(c), now))
  /\ UNCHANGED <<revision, proc, now>>

\* The status the target of call r answers with.
StatusOfTarget(r) == IF r = 1 THEN 200 ELSE 500

\* The response callback of a probe of call r.
ResponseOverlapping(r, w) ==
  /\ proc = "running"
  /\ InFlight(r, w)
  /\ runs[r].workers[w].phase = "sent"
  /\ runs' = [runs EXCEPT ![r].workers[w].phase = "headers",
                          ![r].workers[w].statusCode = StatusOfTarget(r)]
  /\ UNCHANGED <<revision, proc, now>>

NextOverlap ==
  \/ LineRunOverlapping
  \/ \E r \in 1..Len(runs), w \in 1..MaxConcurrency : ResponseOverlapping(r, w)
  \/ \E r \in 1..Len(runs), w \in 1..MaxConcurrency : End(r, w)

SpecOverlap == InitOverlap /\ [][NextOverlap]_vars

(* ------------------------ exchanges that terminate -------------------- *)
\* Every exchange terminates: the transport does not leave a request
\* without a response or an error for ever, nor a response without its end
\* or an error.  (A 'data' event that changes nothing is no step.)
ExchangesTerminate ==
  \A w \in 1..MaxConcurrency :
    WF_vars(\E r \in 1..Len(runs) :
              Response(r, w) \/ End(r, w) \/ ResError(r, w) \/ ReqError(r, w))

SpecLive == Init /\ [][Next]_vars /\ ExchangesTerminate

(* -------------------- calcStats in binary64 arithmetic ---------------- *)
\* The numbers of the program are IEEE 754 doubles.  The calls modelled
\* above keep them as exact rationals; what follows is the arithmetic of
\* calcStats as the machine does it, rounding to the nearest double (ties to
\* even) after every operation.  Only the doubles the aggregation forms are
\* covered: zero and positive normal numbers.
\*
\* A double is [hi, lo, e] with value (hi * Limb + lo) * 2^e; its 53-bit
\* significand is split in two so that every intermediate integer stays
\* below 2^31.  A non-zero double has Limb <= hi < 2 * Limb.
Limb == 2^26

DoubleZero == [hi |-> 0, lo |-> 0, e |-> 0]

IsDoubleZero(a) == a.hi = 0 /\ a.lo = 0

\* An exact intermediate result: a significand, the bit just below it (g)
\* and whether any lower bit is set (s).
Exact(a) == [hi |-> a.hi, lo |-> a.lo, e |-> a.e, g |-> 0, s |-> 0]

\* Drop the lowest bit of the significand into g, and g into s.
ShiftRight1(x) ==
  [hi |-> x.hi \div 2,
   lo |-> (x.lo \div 2) + (x.hi % 2) * (Limb \div 2),
   e |-> x.e + 1,
   g |-> x.lo % 2,
   s |-> IF x.g = 1 \/ x.s = 1 THEN 1 ELSE 0]

RECURSIVE ShiftRight(_, _)
ShiftRight(x, d) == IF d = 0 THEN x ELSE ShiftRight(ShiftRight1(x), d - 1)

\* Append one bit below the significand.
ShiftLeft1(x, bit) ==
  [hi |-> 2 * x.hi + (2 * x.lo + bit) \div Limb,
   lo |-> (2 * x.lo + bit) % Limb,
   e |-> x.e - 1,
   g |-> 0,
   s |-> 0]

\* Round an exact result of at most 53 significant bits to the nearest
\* double, ties to the even significand.
RoundToNearestEven(x) ==
  IF x.g = 1 /\ (x.s = 1 \/ x.lo % 2 = 1)
  THEN IF x.lo + 1 < Limb THEN [hi |-> x.hi, lo |-> x.lo + 1, e |-> x.e]
       ELSE IF x.hi + 1 < 2 * Limb THEN [hi |-> x.hi + 1, lo |-> 0, e |-> x.e]
       ELSE [hi |-> Limb, lo |-> 0, e |-> x.e + 1]
  ELSE [hi |-> x.hi, lo |-> x.lo, e |-> x.e]

RECURSIVE LongDivision(_, _, _)
\* The quotient q with remainder r of a division by n, carried on bit by bit
\* until the significand has 53 bits, then the guard bit and the rest.
LongDivision(q, r, n) ==
  IF q.hi = 0 /\ q.lo = 0 /\ r = 0 THEN Exact(DoubleZero)
  ELSE IF q.hi < Limb
  THEN LongDivision(ShiftLeft1(q, IF 2 * r >= n THEN 1 ELSE 0),
                    IF 2 * r >= n THEN 2 * r - n ELSE 2 * r, n)
  ELSE [q EXCEPT !.g = IF 2 * r >= n THEN 1 ELSE 0,
                 !.s = IF (IF 2 * r >= n THEN 2 * r - n ELSE 2 * r) # 0
                       THEN 1 ELSE 0]

\* k / n for two small non-negative integers (s.totalTime / 1000).
DoubleQuotient(k, n) ==
  RoundToNearestEven(
    LongDivision([hi |-> 0, lo |-> k \div n, e |-> 0, g |-> 0, s |-> 0],
                 k % n, n))

\* a / n for a double a and a small positive integer n (sum / values.length).
DoubleDivide(a, n) ==
  RoundToNearestEven(
    LongDivision([hi |-> a.hi \div n,
                  lo |-> ((a.hi % n) * Limb + a.lo) \div n,
                  e |-> a.e, g |-> 0, s |-> 0],
                 ((a.hi % n) * Limb + a.lo) % n, n))

\* a + b
DoubleAdd(a, b) ==
  IF IsDoubleZero(a) THEN b
  ELSE IF IsDoubleZero(b) THEN a
  ELSE LET big == IF a.e >= b.e THEN a ELSE b
           small == ShiftRight(Exact(IF a.e >= b.e THEN b ELSE a),
                               IF a.e >= b.e THEN a.e - b.e ELSE b.e - a.e)
           sum == [hi |-> big.hi + small.hi + (big.lo + small.lo) \div Limb,
                   lo |-> (big.lo + small.lo) % Limb,
                   e |-> big.e, g |-> small.g, s |-> small.s]
       IN RoundToNearestEven(IF sum.hi >= 2 * Limb THEN ShiftRight1(sum) ELSE sum)

\* a < b
DoubleLt(a, b) ==
  IF IsDoubleZero(b) THEN FALSE
  ELSE IF IsDoubleZero(a) THEN TRUE
  ELSE IF a.e # b.e THEN a.e < b.e
  ELSE IF a.hi # b.hi THEN a.hi < b.hi
  ELSE a.lo < b.lo

RECURSIVE DoubleMin(_)
\* Math.min(...values)
DoubleMin(values) ==
  IF values = <<>> THEN PosInf
  ELSE IF Len(values) = 1 THEN Head(values)
  ELSE LET rest == DoubleMin(Tail(values))
       IN IF DoubleLt(Head(values), rest) THEN Head(values) ELSE rest

RECURSIVE DoubleMax(_)
\* Math.max(...values)
DoubleMax(values) ==
  IF values = <<>> THEN NegInf
  ELSE IF Len(values) = 1 THEN Head(values)
  ELSE LET rest == DoubleMax(Tail(values))
       IN IF DoubleLt(rest, Head(values)) THEN Head(values) ELSE rest

RECURSIVE DoubleReduceSum(_, _)
\* values.reduce((acc, v) => acc + v, acc): the sum is formed from the left,
\* in the order of the list, with one rounding for every element.
DoubleReduceSum(values, acc) ==
  IF values = <<>> THEN acc
  ELSE DoubleReduceSum(Tail(values), DoubleAdd(acc, Head(values)))

calcStatsDouble(values) ==
  [min |-> DoubleMin(values),
   max |-> DoubleMax(values),
   avg |-> IF values = <<>> THEN NaN
           ELSE DoubleDivide(DoubleReduceSum(values, DoubleZero), Len(values))]

\* s.<field> / 1000 for the outcomes that have the field.
DoubleTimes(stats, field) ==
  LET kept == SelectSeq(stats, LAMBDA s: s[field] # Undefined)
  IN [i \in 1..Len(kept) |-> DoubleQuotient(kept[i][field], 1000)]

\* The Summary with its three metric groups in binary64 arithmetic.  The
\* counts are integers and the rate does not read the outcomes.
SummaryDouble(run, testEndTime) ==
  [Summary(run, testEndTime) EXCEPT
     !.totalTime = calcStatsDouble(DoubleTimes(run.stats, "totalTime")),
     !.timeToFirstByte = calcStatsDouble(DoubleTimes(run.stats, "timeToFirstByte")),
     !.timeToLastByte = calcStatsDouble(DoubleTimes(run.stats, "timeToLastByte"))]

\* The outcome of unit, issued at time issue, whose response (status 200)
\* came in one chunk after millis milliseconds and ended in the same
\* millisecond.
OutcomeAfter(unit, issue, millis) ==
  EndStat("index",
          [NewProbe(unit, issue) EXCEPT !.phase = "headers", !.statusCode = 200,
                                        !.firstByteTime = issue + millis],
          issue + millis)

RECURSIVE EndOfUnit(_, _)
\* The time at which the one worker of a call started at time 1 has the
\* outcome of unit i, unit j having taken millis[j] milliseconds.
EndOfUnit(millis, i) ==
  IF i = 0 THEN 1 ELSE EndOfUnit(millis, i - 1) + millis[i]

\* A call of src/index.ts with one worker that probed its units one after
\* another and has collected every outcome, just before its join settles.
InitAggregate ==
  /\ revision = "index"
  /\ proc = "running"
  /\ \E n \in 1..MaxOutcomes : \E millis \in [1..n -> 1..MaxMillis] :
       /\ now = EndOfUnit(millis, n)
       /\ runs = <<[NewRun("valid", Num(n), Num(1), 1) EXCEPT
                      !.stats = [i \in 1..n |->
                                   OutcomeAfter(i, EndOfUnit(millis, i - 1),
                                                millis[i])],
                      !.requestSent = n,
                      !.workers = <<WorkerDone>>]>>

\* The statements of runLoadTest after the join, in binary64 arithmetic.
Aggregate ==
  /\ runs[1].state = "awaiting"
  /\ runs' = <<[runs[1] EXCEPT !.state = "returned", !.testEndTime = now,
                               !.summary = SummaryDouble(runs[1], now)]>>
  /\ UNCHANGED <<revision, proc, now>>

NextAggregate == Aggregate

SpecAggregate == InitAggregate /\ [][NextAggregate]_vars

(* --------------------- one exchange, event by event ------------------- *)
\* One call of makeRequest with its promise and every event the request and
\* the response can emit, also after the promise has settled.  Spec follows
\* an exchange up to its first terminal event, where the worker resumes;
\* SpecExchange follows the handlers beyond it.  Here runs holds one record:
\*   probe        the closure of makeRequest (startTime, firstByteTime, ...)
\*   promise      the promise makeRequest returned
\*   delivered    the values the awaiting caller was resumed with
\*   chunks       the 'data' events so far
\*   firstChunkAt the time of the first of them
\*   lastChunkAt  the time of the last of them
\*   terminals    the 'end' and 'error' events so far
PendingPromise == [state |-> "pending", value |-> NoSummary]

\* A variant of PromiseResolve for a callback that takes every call: the
\* last value handed over is the one kept.
PromiseResolveOverwrites(promise, value) ==
  [state |-> "fulfilled", value |-> value]

\* resolve(value): settles a pending promise and does nothing to a settled
\* one.
PromiseResolve(promise, value) ==
  IF promise.state = "pending" THEN [state |-> "fulfilled", value |-> value]
  ELSE promise

\* reject(error)
PromiseReject(promise) ==
  IF promise.state = "pending" THEN [state |-> "rejected", value |-> NoSummary]
  ELSE promise

\* The caller's await: its continuation runs with the value each time the
\* promise takes one.
Delivered(x, promise) ==
  IF promise.state = "fulfilled" /\ promise # x.promise
  THEN Append(x.delivered, promise.value)
  ELSE x.delivered

\* makeRequest(url) called at time t for a valid url.
NewExchange(t) ==
  [probe |-> NewProbe(1, t), promise |-> PendingPromise, delivered |-> <<>>,
   chunks |-> 0, firstChunkAt |-> Null, lastChunkAt |-> Null,
   terminals |-> 0]

InitExchange ==
  /\ revision \in Revisions
  /\ proc = "running"
  /\ now = 1
  /\ runs = <<NewExchange(1)>>

\* The response callback: the handlers of the response are registered.
ExchangeResponse ==
  /\ proc = "running"
  /\ runs[1].probe.phase = "sent"
  /\ \E status \in Statuses :
       runs' = <<[runs[1] EXCEPT !.probe.phase = "headers",
                                 !.probe.statusCode = status]>>
  /\ UNCHANGED <<revision, proc, now>>

\* res 'data'
ExchangeData ==
  /\ proc = "running"
  /\ runs[1].probe.phase = "headers"
  /\ runs[1].chunks < MaxChunks
  /\ runs' = <<[runs[1] EXCEPT
                  !.probe = OnData(runs[1].probe, now),
                  !.chunks = runs[1].chunks + 1,
                  !.firstChunkAt = IF runs[1].chunks = 0 THEN now
                                   ELSE runs[1].firstChunkAt,
                  !.lastChunkAt = now]>>
  /\ UNCHANGED <<revision, proc, now>>

\* The record after a handler of the response has called resolve(stat).
Resolved(x, stat) ==
  LET promise == PromiseResolve(x.promise, stat)
  IN [x EXCEPT !.promise = promise, !.delivered = Delivered(x, promise),
               !.terminals = x.terminals + 1]

\* res 'end'
ExchangeEnd ==
  /\ proc = "running"
  /\ runs[1].probe.phase = "headers"
  /\ runs[1].terminals < MaxTerminals
  /\ runs' = <<Resolved(runs[1], EndStat(revision, runs[1].probe, now))>>
  /\ UNCHANGED <<revision, proc, now>>

\* res 'error'
ExchangeResError ==
  /\ proc = "running"
  /\ runs[1].probe.phase = "headers"
  /\ runs[1].terminals < MaxTerminals
  /\ runs' = <<Resolved(runs[1], ErrorStat(revision, runs[1].probe, now))>>
  /\ UNCHANGED <<revision, proc, now>>

\* The request's 'error' event, before or after a response: part_001
\* rejects; the other revisions have no listener and the process dies.
ExchangeReqError ==
  /\ proc = "running"
  /\ runs[1].terminals < MaxTerminals
  /\ IF revision = "part_001"
     THEN /\ runs' = <<[runs[1] EXCEPT
                          !.promise = PromiseReject(runs[1].promise),
                          !.terminals = runs[1].terminals + 1]>>
          /\ UNCHANGED proc
     ELSE /\ proc' = "crashed"
          /\ UNCHANGED runs
  /\ UNCHANGED <<revision, now>>

NextExchange ==
  \/ Tick
  \/ ExchangeResponse
  \/ ExchangeData
  \/ ExchangeEnd
  \/ ExchangeResError
  \/ ExchangeReqError

SpecExchange == InitExchange /\ [][NextExchange]_vars

(* ------------------------------- claims ------------------------------- *)
RunIds == 1..Len(runs)

\* The record is a call of runLoadTest, not a direct probe.
IsLoadTest(run) == run.state \in {"awaiting", "returned", "raised"}

\* requestCount >= 1 and concurrency >= 1
ValidConfig(run) ==
  /\ IsFinite(run.numRequests) /\ run.numRequests.n >= 1
  /\ IsFinite(run.concurrency) /\ run.concurrency.n >= 1

\* The units of the outcomes collected so far.
StatUnits(run) == {run.stats[i].unit : i \in 1..Len(run.stats)}

\* The workers of a call that await a probe.
Awaiting(run) == {w \in 1..Len(run.workers) : run.workers[w].pc = "awaiting"}

\* Every number of a metric group is finite.
GroupFinite(g) == IsFinite(g.min) /\ IsFinite(g.max) /\ IsFinite(g.avg)

\* min <= mean <= max for a metric group.
GroupOrdered(g) == JsLe(g.min, g.avg) /\ JsLe(g.avg, g.max)

\* C1: for requestCount >= 1 and concurrency >= 1 and every interleaving of
\* the probes' completions, no unit is probed twice at any moment (the
\* outcomes collected and the probes in flight all belong to different units,
\* each counted by requestSent), and a call that has returned its Summary has
\* collected exactly requestCount outcomes, one for each unit 1..requestCount.
C1_ExactlyOncePerUnit ==
  \A r \in RunIds :
    LET run == runs[r] IN
    (ValidConfig(run) /\ IsLoadTest(run)) =>
      /\ Cardinality(StatUnits(run)) = Len(run.stats)
      /\ \A w \in Awaiting(run) : run.workers[w].unit \notin StatUnits(run)
      /\ \A v, w \in Awaiting(run) :
           v # w => run.workers[v].unit # run.workers[w].unit
      /\ StatUnits(run) \cup {run.workers[w].unit : w \in Awaiting(run)}
           \subseteq 1..run.requestSent
      /\ run.state = "returned" =>
           /\ Len(run.stats) = run.numRequests.n
           /\ StatUnits(run) = 1..run.numRequests.n

\* C1 witness: a call with two requests and two workers has returned, and the
\* probe of unit 2 completed before the probe of unit 1.
C1_Witness ==
  \E r \in RunIds :
    /\ runs[r].state = "returned"
    /\ runs[r].numRequests = Num(2)
    /\ runs[r].concurrency = Num(2)
    /\ Len(runs[r].stats) = 2
    /\ runs[r].stats[1].unit = 2

\* C2: the Summary a call returns for a valid configuration satisfies
\* successCount + failedCount = requestCount.
C2_CountsSumToRequestCount ==
  \A r \in RunIds :
    (ValidConfig(runs[r]) /\ runs[r].state = "returned") =>
      runs[r].summary.successCount + runs[r].summary.failedCount
        = runs[r].numRequests.n

\* C2 witness: a returned Summary counting a success and a failure, the
\* failure being an outcome with an error and no 5XX status.
C2_Witness ==
  \E r \in RunIds :
    /\ ValidConfig(runs[r])
    /\ runs[r].state = "returned"
    /\ runs[r].summary.successCount = 1
    /\ runs[r].summary.failedCount = 1
    /\ \E i \in 1..Len(runs[r].stats) :
         runs[r].stats[i].error /\ ~(runs[r].stats[i].statusCode >= 500)

\* C3: a transport-level failure of one request (the request's 'error'
\* event) does not abort the call or the process: no worker throws because
\* of it, the call does not raise and the process keeps running.
C3_TransportFailureDoesNotAbort ==
  /\ proc # "crashed"
  /\ \A r \in RunIds :
       runs[r].targetUrl = "valid" =>
         /\ runs[r].state # "raised"
         /\ \A w \in 1..Len(runs[r].workers) : runs[r].workers[w].pc # "rejected"

\* C4: the call is a join: once it has settled (returned or raised) no
\* worker of it awaits a probe.
C4_SettledMeansNoProbeInFlight ==
  \A r \in RunIds :
    runs[r].state \in {"returned", "raised"} => Awaiting(runs[r]) = {}

\* C5: with concurrency > requestCount >= 1 never more than requestCount
\* units are counted or collected, every worker beyond the first requestCount
\* ends without a probe, and a returned call has exactly requestCount
\* outcomes.
C5_SurplusWorkersIssueNothing ==
  \A r \in RunIds :
    LET run == runs[r] IN
    (ValidConfig(run) /\ run.concurrency.n > run.numRequests.n) =>
      /\ run.requestSent <= run.numRequests.n
      /\ Len(run.stats) <= run.numRequests.n
      /\ \A w \in 1..Len(run.workers) :
           w > run.numRequests.n => run.workers[w].pc = "done"
      /\ run.state = "returned" => Len(run.stats) = run.numRequests.n

\* C5 witness: a call with one request and two workers has returned; its
\* second worker is done and one outcome was collected.
C5_Witness ==
  \E r \in RunIds :
    /\ runs[r].targetUrl = "valid"
    /\ runs[r].numRequests = Num(1)
    /\ runs[r].concurrency = Num(2)
    /\ runs[r].state = "returned"
    /\ Len(runs[r].workers) = 2
    /\ runs[r].workers[2].pc = "done"
    /\ Len(runs[r].stats) = 1

\* No worker of the call has seen a response: every outcome collected has an
\* error and no status, and every pending exchange is before its headers.
NoResponseSeen(run) ==
  /\ \A i \in 1..Len(run.stats) :
       run.stats[i].error /\ run.stats[i].statusCode = Undefined
  /\ \A w \in Awaiting(run) : run.workers[w].phase = "sent"

\* C6: when the target refuses every connection of a call with
\* requestCount = concurrency = N, the process keeps running, the call does
\* not raise, and once no exchange is pending it has returned a Summary over
\* N outcomes with successCount = 0 and failedCount = N.
C6_AllRefusedStillSummarised ==
  \A r \in RunIds :
    LET run == runs[r] IN
    (/\ run.targetUrl = "valid"
     /\ ValidConfig(run)
     /\ run.numRequests = run.concurrency
     /\ NoResponseSeen(run)) =>
      /\ proc # "crashed"
      /\ run.state # "raised"
      /\ Awaiting(run) = {} =>
           /\ run.state = "returned"
           /\ Len(run.stats) = run.numRequests.n
           /\ run.summary.successCount = 0
           /\ run.summary.failedCount = run.numRequests.n

\* C7: no call returns a Summary over zero outcomes, and no returned Summary
\* has a rate or a min, max or mean that is NaN or infinite.
C7_NoSummaryOverNothing ==
  \A r \in RunIds :
    runs[r].state = "returned" =>
      /\ runs[r].stats # <<>>
      /\ IsFinite(runs[r].summary.requestsPerSecond)
      /\ GroupFinite(runs[r].summary.totalTime)
      /\ GroupFinite(runs[r].summary.timeToFirstByte)
      /\ GroupFinite(runs[r].summary.timeToLastByte)

\* C8: for a non-empty collection of outcomes every metric group of the
\* Summary satisfies min <= mean <= max, also when no outcome reports a
\* byte-timing metric.
C8_MinMeanMaxOrdered ==
  \A r \in RunIds :
    (runs[r].state = "returned" /\ runs[r].stats # <<>>) =>
      /\ GroupOrdered(runs[r].summary.totalTime)
      /\ GroupOrdered(runs[r].summary.timeToFirstByte)
      /\ GroupOrdered(runs[r].summary.timeToLastByte)

\* C9: requestsPerSecond of a returned call with requestCount >= 1 and
\* concurrency >= 1 is positive and finite, also when the start and end
\* timestamps of the call are equal.
C9_RatePositiveFinite ==
  \A r \in RunIds :
    (ValidConfig(runs[r]) /\ runs[r].state = "returned") =>
      /\ IsFinite(runs[r].summary.requestsPerSecond)
      /\ JsLt(Num(0), runs[r].summary.requestsPerSecond)

\* C10: a command whose request count or concurrency is not a positive
\* integer is rejected: the call raises, returns no Summary and counts no
\* unit of work.
C10_InvalidConfigRejected ==
  \A r \in RunIds :
    ~ValidConfig(runs[r]) =>
      /\ runs[r].state = "raised"
      /\ ~runs[r].summary.present
      /\ runs[r].requestSent = 0

\* The exchange of worker w of call r ends in this step: the worker leaves
\* its await.
Terminates(r, w) ==
  /\ Len(runs') = Len(runs)
  /\ \/ runs'[r].workers[w].pc # "awaiting"
     \/ runs'[r].workers[w].unit # runs[r].workers[w].unit

\* C11: an exchange whose headers have arrived (whatever its status) and that
\* ends, by the end of the body or by an error of the response stream, ends
\* with an outcome: the process keeps running, the outcome of the unit is
\* collected, the worker does not throw but goes on to the next unit when
\* one is left and ends otherwise, the call does not raise because of it, and
\* when this was the last worker of a call still awaiting its join the call
\* returns its Summary.
C11_StreamErrorIsNonFatal ==
  [][\A r \in RunIds : \A w \in Awaiting(runs[r]) :
       (runs[r].workers[w].phase = "headers" /\ Terminates(r, w)) =>
         LET run == runs[r]
             new == runs'[r]
         IN /\ proc' = "running"
            /\ Len(new.stats) = Len(run.stats) + 1
            /\ new.stats[Len(new.stats)].unit = run.workers[w].unit
            /\ new.workers[w].pc \in {"awaiting", "done"}
            /\ IsLoadTest(run) =>
                 /\ new.workers[w].pc = "awaiting" <=>
                      LoopContinues(revision, run.requestSent, run.numRequests)
                 /\ new.workers[w].pc = "awaiting" =>
                      /\ new.workers[w].unit = run.requestSent + 1
                      /\ new.workers[w].phase = "sent"
                 /\ new.state # run.state => new.state = "returned"
                 /\ (run.state = "awaiting" /\ Awaiting(new) = {}) =>
                      new.state = "returned" /\ new.summary.present
    ]_vars

\* C11 witness: a call with two requests and one worker has returned its
\* Summary; the response stream of unit 1 failed after its headers and the
\* same worker then probed unit 2.
C11_Witness ==
  \E r \in RunIds :
    /\ runs[r].numRequests = Num(2)
    /\ runs[r].concurrency = Num(1)
    /\ runs[r].state = "returned"
    /\ runs[r].summary.present
    /\ Len(runs[r].stats) = 2
    /\ runs[r].stats[1].unit = 1
    /\ runs[r].stats[1].error
    /\ runs[r].stats[2].unit = 2

\* The outcomes collected by call r.
StatIds(r) == 1..Len(runs[r].stats)

\* C12: every outcome that has both timeToFirstByte and timeToLastByte has
\* timeToFirstByte + timeToLastByte = totalTime.
C12_FirstPlusLastIsTotal ==
  \A r \in RunIds : \A i \in StatIds(r) :
    LET stat == runs[r].stats[i] IN
    (stat.timeToFirstByte # Undefined /\ stat.timeToLastByte # Undefined) =>
      stat.timeToFirstByte + stat.timeToLastByte = stat.totalTime

\* C13: the outcome an exchange ends with, by the end of the body or by an
\* error of the response stream, has timeToFirstByte exactly when a body
\* chunk was received during the exchange, and timeToLastByte under the
\* same condition.
C13_ByteTimingsIffChunk ==
  [][\A r \in RunIds : \A w \in Awaiting(runs[r]) :
       (Terminates(r, w) /\ Len(runs'[r].stats) = Len(runs[r].stats) + 1) =>
         LET stat == runs'[r].stats[Len(runs'[r].stats)]
             chunk == runs[r].workers[w].firstByteTime # Null
         IN /\ stat.timeToFirstByte # Undefined <=> chunk
            /\ stat.timeToLastByte # Undefined <=> chunk
    ]_vars

\* C14: the outcome an exchange ends with has a statusCode exactly when the
\* headers of a response had arrived, also when the body stream failed
\* afterwards.
C14_StatusIffResponse ==
  [][\A r \in RunIds : \A w \in Awaiting(runs[r]) :
       (Terminates(r, w) /\ Len(runs'[r].stats) = Len(runs[r].stats) + 1) =>
         LET stat == runs'[r].stats[Len(runs'[r].stats)]
         IN stat.statusCode # Undefined <=>
              runs[r].workers[w].phase = "headers"
    ]_vars

\* C15: every probe of a call is issued at or after the call's start
\* timestamp; a call that has returned read its end timestamp at or after
\* its start timestamp with no worker left awaiting, the span it divides by
\* is (end - start) / 1000, which is not negative, and its rate is
\* numRequests divided by that span.
C15_SpanIsEndMinusStart ==
  \A r \in RunIds :
    LET run == runs[r]
        span == JsDiv(Num(run.testEndTime - run.testStartTime), Num(1000))
    IN /\ \A w \in Awaiting(run) : run.workers[w].startTime >= run.testStartTime
       /\ run.state = "returned" =>
            /\ Awaiting(run) = {}
            /\ run.testEndTime >= run.testStartTime
            /\ TotalTestTimeSeconds(revision, run.testStartTime, run.testEndTime)
                 = span
            /\ ~JsLt(TotalTestTimeSeconds(revision, run.testStartTime,
                                          run.testEndTime), Num(0))
            /\ run.summary.requestsPerSecond = JsDiv(run.numRequests, span)

\* The probes of a call that are in flight.
InFlightCount(run) == Cardinality(Awaiting(run))

\* C16: at every moment the probes of a call in flight are at most
\* concurrency (none when concurrency is not a positive number), and the
\* step that starts a call for a valid url with requestCount >= concurrency
\* >= 1 leaves exactly concurrency probes in flight at the same time.
C16_ConcurrencyReachedNotExceeded ==
  /\ [](\A r \in RunIds :
          InFlightCount(runs[r]) <=
            (IF IsFinite(runs[r].concurrency) /\ runs[r].concurrency.n >= 1
             THEN runs[r].concurrency.n ELSE 0))
  /\ [][(runs = <<>> /\ runs' # <<>>) =>
          LET run == runs'[1] IN
          (/\ run.targetUrl = "valid"
           /\ ValidConfig(run)
           /\ run.numRequests.n >= run.concurrency.n) =>
            InFlightCount(run) = run.concurrency.n
       ]_vars

\* C16 witness: a call with two requests and two workers has both probes in
\* flight, each past its headers, and nothing collected yet.
C16_Witness ==
  \E r \in RunIds :
    /\ runs[r].numRequests = Num(2)
    /\ runs[r].concurrency = Num(2)
    /\ runs[r].stats = <<>>
    /\ InFlightCount(runs[r]) = 2
    /\ \A w \in Awaiting(runs[r]) : runs[r].workers[w].phase = "headers"

\* The outcomes of call r whose statusCode is in [200, 300).
Status2xxIds(r) == {i \in StatIds(r) : runs[r].stats[i].statusCode \in 200..299}

\* C17: the Summary a call returns has successCount = the number of
\* collected outcomes whose statusCode is in [200, 300) and failedCount = the
\* number of all the other outcomes; when the configuration is valid and
\* every outcome is a response with status 500, successCount = 0 and
\* failedCount = requestCount.
C17_CountsByStatusClass ==
  \A r \in RunIds :
    runs[r].state = "returned" =>
      /\ runs[r].summary.successCount = Cardinality(Status2xxIds(r))
      /\ runs[r].summary.failedCount
           = Cardinality(StatIds(r) \ Status2xxIds(r))
      /\ (/\ ValidConfig(runs[r])
          /\ \A i \in StatIds(r) : runs[r].stats[i].statusCode = 500) =>
           /\ runs[r].summary.successCount = 0
           /\ runs[r].summary.failedCount = runs[r].numRequests.n

\* C17 witness: a call with two requests has returned; both outcomes are
\* complete responses with status 500.
C17_Witness ==
  \E r \in RunIds :
    /\ runs[r].state = "returned"
    /\ runs[r].numRequests = Num(2)
    /\ Len(runs[r].stats) = 2
    /\ \A i \in StatIds(r) :
         runs[r].stats[i].statusCode = 500 /\ ~runs[r].stats[i].error
    /\ runs[r].summary.failedCount = 2

\* The outcomes of call r that report the metric field.
Reporting(r, field) ==
  IF field = "totalTime" THEN StatIds(r)
  ELSE {i \in StatIds(r) : runs[r].stats[i][field] # Undefined}

RECURSIVE SumMillis(_, _, _)
\* The sum of the metric field, in milliseconds, over the outcomes ids.
SumMillis(stats, ids, field) ==
  IF ids = {} THEN 0
  ELSE LET i == CHOOSE j \in ids : TRUE
       IN stats[i][field] + SumMillis(stats, ids \ {i}, field)

\* The group g holds, in seconds, the least, the greatest and the mean of the
\* metric field over exactly the outcomes of call r that report it.
GroupIsOverReporting(g, r, field) ==
  LET ids == Reporting(r, field)
      stats == runs[r].stats
  IN /\ GroupFinite(g)
     /\ \E i \in ids : g.min.n * 1000 = stats[i][field] * g.min.d
     /\ \A i \in ids : g.min.n * 1000 <= stats[i][field] * g.min.d
     /\ \E i \in ids : g.max.n * 1000 = stats[i][field] * g.max.d
     /\ \A i \in ids : g.max.n * 1000 >= stats[i][field] * g.max.d
     /\ g.avg.n * 1000 * Cardinality(ids) = SumMillis(stats, ids, field) * g.avg.d

\* C18: in the Summary a call returns, each metric group that has a
\* reporting outcome is the least, greatest and mean over exactly the
\* outcomes that report the metric: an outcome without a byte timing is left
\* out of that group, it is not a zero in it, and it still counts in the
\* totalTime group, which is over every outcome.
C18_GroupsOverReportingOutcomes ==
  \A r \in RunIds :
    runs[r].state = "returned" =>
      \A field \in {"totalTime", "timeToFirstByte", "timeToLastByte"} :
        Reporting(r, field) # {} =>
          GroupIsOverReporting(runs[r].summary[field], r, field)

\* C18 witness: a returned call with two outcomes; one took 1 ms and
\* reports no timeToFirstByte, the other reports a timeToFirstByte of 1 ms:
\* the least and the mean timeToFirstByte are 1 ms, and the totalTime group
\* counts both outcomes.
C18_Witness ==
  \E r \in RunIds :
    /\ runs[r].state = "returned"
    /\ Len(runs[r].stats) = 2
    /\ \E i, j \in StatIds(r) :
         /\ runs[r].stats[i].timeToFirstByte = Undefined
         /\ runs[r].stats[i].totalTime = 1
         /\ runs[r].stats[j].timeToFirstByte = 1
    /\ runs[r].summary.timeToFirstByte.min = JsDiv(Num(1), Num(1000))
    /\ runs[r].summary.timeToFirstByte.avg.n * 1000
         = runs[r].summary.timeToFirstByte.avg.d
    /\ Cardinality(Reporting(r, "totalTime")) = 2

\* The one-to-one maps of 1..n onto itself.
Permutations(n) ==
  {p \in [1..n -> 1..n] : \A i, j \in 1..n : p[i] = p[j] => i = j}

\* C19: the Summary a call returns is the Summary of every other order in
\* which the same outcomes could have been collected, the span being the
\* same.
C19_SummaryIndependentOfOrder ==
  \A r \in RunIds :
    runs[r].state = "returned" =>
      \A p \in Permutations(Len(runs[r].stats)) :
        SummaryDouble([runs[r] EXCEPT
                         !.stats = [i \in StatIds(r) |-> runs[r].stats[p[i]]]],
                      runs[r].testEndTime)
          = runs[r].summary

\* C20: every outcome has totalTime >= 0, and every outcome that has a
\* timeToFirstByte has 0 <= timeToFirstByte <= totalTime.
C20_FirstByteWithinTotal ==
  \A r \in RunIds : \A i \in StatIds(r) :
    LET stat == runs[r].stats[i] IN
    /\ stat.totalTime >= 0
    /\ stat.timeToFirstByte # Undefined =>
         /\ 0 <= stat.timeToFirstByte
         /\ stat.timeToFirstByte <= stat.totalTime

\* C20 witness: an outcome whose first chunk came 1 ms after the issue of
\* the request and whose response ended in that same millisecond:
\* timeToFirstByte = totalTime = 1.
C20_Witness ==
  \E r \in RunIds : \E i \in StatIds(r) :
    /\ runs[r].stats[i].timeToFirstByte = 1
    /\ runs[r].stats[i].totalTime = 1

\* The workers of a call that hold unit u in this state.
Holders(run, u) == {w \in Awaiting(run) : run.workers[w].unit = u}

\* C21: for a call of runLoadTest with requestCount >= 1 the counter of
\* claimed units is at most requestCount in every state; no step decreases
\* it; and every unit a step claims for a valid url (each index between the
\* old and the new value of the counter) is held, right after the step, by
\* exactly one worker, which has just issued its probe, while no unit
\* claimed before is held by two workers or held and collected at once.
C21_ClaimIsAtomic ==
  /\ [](\A r \in RunIds :
          LET run == runs[r] IN
          (IsLoadTest(run) /\ IsFinite(run.numRequests) /\ run.numRequests.n >= 1)
            => /\ run.requestSent <= run.numRequests.n
               /\ \A u \in 1..run.requestSent :
                    /\ Cardinality(Holders(run, u)) <= 1
                    /\ Holders(run, u) # {} => u \notin StatUnits(run))
  /\ [][\A r \in 1..Len(runs') :
          LET new == runs'[r]
              before == IF r \in RunIds THEN runs[r].requestSent ELSE 0
          IN (IsLoadTest(new) /\ IsFinite(new.numRequests)
                /\ new.numRequests.n >= 1) =>
               /\ new.requestSent >= before
               /\ new.targetUrl = "valid" =>
                    \A u \in (before + 1)..new.requestSent :
                      /\ Cardinality(Holders(new, u)) = 1
                      /\ \A w \in Holders(new, u) : new.workers[w].phase = "sent"
       ]_vars

\* C21 witness: a call with two requests and two workers, both units
\* claimed; the worker of unit 2 has resumed, found no work left and ended
\* while the worker of unit 1 still awaits its probe.
C21_Witness ==
  \E r \in RunIds :
    /\ runs[r].numRequests = Num(2)
    /\ runs[r].concurrency = Num(2)
    /\ runs[r].requestSent = 2
    /\ StatUnits(runs[r]) = {2}
    /\ runs[r].workers[2].pc = "done"
    /\ Holders(runs[r], 1) = {1}

\* A call for a valid url and a valid configuration is in progress: the
\* join of runLoadTest is awaited, or the direct probe of part_001_cli is.
RunInProgress ==
  \E r \in RunIds :
    /\ runs[r].targetUrl = "valid"
    /\ ValidConfig(runs[r])
    /\ runs[r].state \in {"awaiting", "single"}

\* The call has returned its Summary (the direct probe has delivered its
\* outcome) and none of its workers is left awaiting.
RunReturned ==
  \E r \in RunIds :
    /\ runs[r].state \in {"returned", "printed"}
    /\ Awaiting(runs[r]) = {}

\* C22: when every exchange terminates, a call in progress leads to the
\* call having returned with every worker ended, unless the user closed the
\* shell meanwhile.
C22_RunEventuallyReturns ==
  RunInProgress ~> (RunReturned \/ proc = "exited")

\* No probe of the call has raised: no worker has thrown.
NoProbeRaised(run) ==
  \A w \in 1..Len(run.workers) : run.workers[w].pc # "rejected"

\* C23: in every state of a call of runLoadTest no probe of which has
\* raised, the outcomes collected plus the probes in flight are the units
\* claimed; and no step takes an outcome out of the collection or changes
\* one: the collection before the step is a prefix of the collection after.
C23_NoOutcomeLost ==
  /\ [](\A r \in RunIds :
          (IsLoadTest(runs[r]) /\ NoProbeRaised(runs[r])) =>
            Len(runs[r].stats) + InFlightCount(runs[r]) = runs[r].requestSent)
  /\ [][\A r \in RunIds :
          (Len(runs') = Len(runs) /\ IsLoadTest(runs[r])) =>
            /\ Len(runs'[r].stats) >= Len(runs[r].stats)
            /\ \A i \in StatIds(r) : runs'[r].stats[i] = runs[r].stats[i]
       ]_vars

\* C23 witness: a call with two requests and two workers; one outcome is
\* collected while the probe of the other unit is still in flight.
C23_Witness ==
  \E r \in RunIds :
    /\ runs[r].numRequests = Num(2)
    /\ runs[r].concurrency = Num(2)
    /\ runs[r].requestSent = 2
    /\ Len(runs[r].stats) = 1
    /\ InFlightCount(runs[r]) = 1

\* C24: the caller of makeRequest is resumed with an outcome at most once,
\* with the value the promise holds; and once the promise has settled no
\* later event of the exchange ('end', 'error', 'data', the request's
\* 'error') changes the promise, the outcome in it, or what the caller got.
C24_OutcomeOnceAndImmutable ==
  /\ [](/\ Len(runs[1].delivered) <= 1
        /\ runs[1].promise.state = "fulfilled" <=>
             runs[1].delivered = <<runs[1].promise.value>>)
  /\ [][runs[1].promise.state # "pending" =>
          /\ runs'[1].promise = runs[1].promise
          /\ runs'[1].delivered = runs[1].delivered
       ]_vars

\* C24 witness: the response ended at time 1 and its outcome was delivered;
\* a second terminal event was handled at time 2 and the outcome the caller
\* has is still the one of time 1.
C24_Witness ==
  /\ now = 2
  /\ runs[1].terminals = 2
  /\ Len(runs[1].delivered) = 1
  /\ ~runs[1].delivered[1].error
  /\ runs[1].delivered[1].totalTime = 0
  /\ runs[1].promise.state = "fulfilled"

\* C25: the first-byte timestamp of an exchange is the time of its first
\* body chunk, however many chunks have come since (none while no chunk has
\* come), and a delivered outcome that has a timeToFirstByte has the time
\* from the issue of the request to that first chunk.
C25_FirstChunkSetsFirstByte ==
  /\ runs[1].probe.firstByteTime = runs[1].firstChunkAt
  /\ \A i \in 1..Len(runs[1].delivered) :
       runs[1].delivered[i].timeToFirstByte # Undefined =>
         runs[1].delivered[i].timeToFirstByte
           = runs[1].firstChunkAt - runs[1].probe.startTime

\* C25 witness: two chunks, the first at time 1 and the second at time 2;
\* the response has ended and its outcome has the timeToFirstByte of the
\* first chunk.
C25_Witness ==
  /\ runs[1].chunks = 2
  /\ runs[1].firstChunkAt = 1
  /\ runs[1].lastChunkAt = 2
  /\ Len(runs[1].delivered) = 1
  /\ runs[1].delivered[1].timeToFirstByte = 0

\* C26: with a first and a second call of runLoadTest in one process, one
\* after the other or overlapping:
\*  - a step that starts a call leaves the record of the other call as it
\*    was, and the new call has an empty collection and a counter that
\*    counts its own first probes only;
\*  - every other step changes one call only;
\*  - for a valid url and configuration, the units a call has counted are
\*    1..requestSent, each collected or in flight in that call, and every
\*    outcome it collected is the answer of its own target;
\*  - the Summary a call returns counts its own requestCount outcomes: all
\*    successes for the first call (its target answers 200), all failures
\*    for the second (its target answers 500).
C26_RunsAreIsolated ==
  /\ [](\A r \in RunIds :
          LET run == runs[r] IN
          (run.targetUrl = "valid" /\ ValidConfig(run)) =>
            /\ StatUnits(run) \cup {run.workers[w].unit : w \in Awaiting(run)}
                 = 1..run.requestSent
            /\ Len(run.stats) + InFlightCount(run) = run.requestSent
            /\ run.requestSent <= run.numRequests.n
            /\ \A i \in StatIds(r) : run.stats[i].statusCode = StatusOfTarget(r)
            /\ run.state = "returned" =>
                 /\ Len(run.stats) = run.numRequests.n
                 /\ run.summary.successCount
                      = (IF r = 1 THEN run.numRequests.n ELSE 0)
                 /\ run.summary.failedCount
                      = (IF r = 1 THEN 0 ELSE run.numRequests.n))
  /\ [][/\ Len(runs') > Len(runs) =>
             /\ \A r \in RunIds : runs'[r] = runs[r]
             /\ runs'[Len(runs')].stats = <<>>
             /\ runs'[Len(runs')].requestSent = Len(runs'[Len(runs')].workers)
                  - Cardinality({w \in 1..Len(runs'[Len(runs')].workers) :
                                   runs'[Len(runs')].workers[w].pc = "done"})
        /\ Len(runs') = Len(runs) =>
             \A r, q \in RunIds :
               (runs'[r] # runs[r] /\ q # r) => runs'[q] = runs[q]
       ]_vars

\* C26 witness: the second call (two requests, two workers) was started
\* while the first (two requests, one worker) was in flight, and has
\* returned its Summary of two failures; the first call has collected the
\* outcome of its unit 1 and awaits the probe of its unit 2.
C26_Witness ==
  /\ Len(runs) = 2
  /\ runs[1].numRequests = Num(2)
  /\ runs[1].concurrency = Num(1)
  /\ runs[1].state = "awaiting"
  /\ StatUnits(runs[1]) = {1}
  /\ runs[1].requestSent = 2
  /\ runs[2].numRequests = Num(2)
  /\ runs[2].concurrency = Num(2)
  /\ runs[2].state = "returned"
  /\ runs[2].summary.failedCount = 2
  /\ runs[2].summary.successCount = 0

\* No exchange of call r was ever started: no worker awaits a probe and no
\* outcome was collected.
NoRequestIssued(run) ==
  /\ run.stats = <<>>
  /\ \A w \in 1..Len(run.workers) : run.workers[w].pc # "awaiting"

\* C27: a call with a syntactically invalid target url raises (in
\* part_001_cli the direct probe of one request with one worker fails), and
\* no request of it is issued, whatever the request count and concurrency
\* of the command.
C27_InvalidUrlRaisesWithoutRequest ==
  \A r \in RunIds :
    runs[r].targetUrl = "invalid" =>
      /\ runs[r].state \in {"raised", "failed"}
      /\ ~runs[r].summary.present
      /\ NoRequestIssued(runs[r])

\* C28: in the shell (the revisions with startREPL) the process is never
\* lost: it reads commands until a line "", "exit" or "quit" closes it.  A
\* call that has settled, by returning its Summary or by raising, has been
\* printed by the line handler (the Summary, or the error line of its catch
\* block) and followed by rl.prompt(), with the shell still running.
C28_ShellPromptsAgain ==
  revision \in ReplRevisions =>
    /\ proc \in {"running", "exited"}
    /\ \A r \in RunIds :
         runs[r].state \in {"returned", "raised"} => proc = "running"

====
